---- MODULE Spec2Model ----
(***************************************************************************)
(* Model of WebServerESP32.ino: an ESP32 gate controller that provisions   *)
(* its WiFi credentials through a setup portal (access point) and then     *)
(* serves a bearer-authenticated HTTP API that pulses a relay.             *)
(*                                                                         *)
(* Strings are sequences of ASCII codes, so that concatenation, equality,  *)
(* indexOf, substring, trim and replace are computed as the Arduino String *)
(* class computes them.                                                    *)
(***************************************************************************)
EXTENDS Integers, Sequences, FiniteSets, TLC

(***************************************************************************)
(* Bounds                                                                  *)
(***************************************************************************)
\* number of distinct values esp_random() can seed the generator with
NumSeeds == 2

(***************************************************************************)
(* Program constants                                                       *)
(***************************************************************************)
relayPin == 23
relayPinMinus == 22
\* length of the generated API key (loop bound of generateAPIKey)
KeyLen == 16
\* upper bound of random(0, 16)
RandomMax == 16
\* HTTP status the remote endpoint must answer for a poll to actuate
HTTP_OK == 200

(***************************************************************************)
(* String literals of the source, as ASCII codes                           *)
(***************************************************************************)
Empty == << >>
\* "Bearer "
BearerPrefix == <<66, 101, 97, 114, 101, 114, 32>>
\* "\"ssid\""
SsidKey == <<34, 115, 115, 105, 100, 34>>
\* "\"password\""
PasswordKey == <<34, 112, 97, 115, 115, 119, 111, 114, 100, 34>>
\* ":"
Colon == <<58>>
\* ","
Comma == <<44>>
\* "}"
RBrace == <<125>>
\* "\""
Quote == <<34>>

(***************************************************************************)
(* Arduino String operations (0-based indices, -1 for "not found")         *)
(***************************************************************************)
\* does pat occur in s at 0-based index i
MatchAt(s, pat, i) ==
  /\ i >= 0
  /\ i + Len(pat) <= Len(s)
  /\ \A k \in 1..Len(pat) : s[i + k] = pat[k]

\* String::indexOf(pat, from)
indexOf(s, pat, from) ==
  IF from >= Len(s) THEN -1
  ELSE LET hits == {i \in from..(Len(s) - Len(pat)) : MatchAt(s, pat, i)}
       IN  IF hits = {} THEN -1
           ELSE CHOOSE i \in hits : \A j \in hits : i <= j

\* String::substring(left, right): swaps the arguments when left > right,
\* returns "" when left is past the end, clips right to the length
substring(s, left, right) ==
  LET l == IF left > right THEN right ELSE left
      r == IF left > right THEN left ELSE right
      rr == IF r > Len(s) THEN Len(s) ELSE r
  IN  IF l >= Len(s) THEN Empty ELSE SubSeq(s, l + 1, rr)

\* isspace()
isSpace(c) == c \in {32, 9, 10, 11, 12, 13}

\* String::trim(): strips white space from both ends
trim(s) ==
  LET keep == {i \in 1..Len(s) : ~isSpace(s[i])}
  IN  IF keep = {} THEN Empty
      ELSE LET lo == CHOOSE i \in keep : \A j \in keep : i <= j
               hi == CHOOSE i \in keep : \A j \in keep : i >= j
           IN  SubSeq(s, lo, hi)

\* String::replace("\"", ""): removes every quote character
removeQuotes(s) == SelectSeq(s, LAMBDA c : c # Quote[1])

(***************************************************************************)
(* generateAPIKey                                                          *)
(***************************************************************************)
\* The pseudo-random generator behind random(): a deterministic function
\* of its state, which randomSeed() sets.  One step of the generator.
rngStep(state) == (state * 13 + 7) % 256

\* random(0, 16) for a generator state
random(state) == (state \div 16) % RandomMax

\* the character appended for a random value r
hexChar(r) == IF r < 10 THEN 48 + r ELSE 65 + (r - 10)

RECURSIVE generateLoop(_, _, _)
generateLoop(i, state, key) ==
  IF i < KeyLen
  THEN LET st == rngStep(state)
       IN  generateLoop(i + 1, st, Append(key, hexChar(random(st))))
  ELSE [key |-> key, rng |-> state]

\* String generateAPIKey(): the key and the generator state it leaves
generateAPIKey(state) == generateLoop(0, state, Empty)

(***************************************************************************)
(* The JSON bodies clients post to /config                                 *)
(***************************************************************************)
\* field names and values a client puts into a body
\* "ssid" and "password" without quotes, "x", "net", "pw", "a,b", "a\"b"
NameSsid == <<115, 115, 105, 100>>
NamePassword == <<112, 97, 115, 115, 119, 111, 114, 100>>
NameX == <<120>>
ValNet == <<110, 101, 116>>
ValPw == <<112, 119>>
ValComma == <<97, 44, 98>>
ValQuote == <<97, 34, 98>>

\* JSON string escaping of a value: a quote becomes backslash quote
RECURSIVE JsonEscape(_)
JsonEscape(s) ==
  IF s = Empty THEN Empty
  ELSE (IF Head(s) = 34 THEN <<92, 34>> ELSE <<Head(s)>>) \o JsonEscape(Tail(s))

\* "name": "value"
JsonMember(pair) ==
  Quote \o pair[1] \o Quote \o Colon \o <<32>> \o Quote \o JsonEscape(pair[2]) \o Quote

RECURSIVE JsonMembers(_)
JsonMembers(pairs) ==
  IF pairs = << >> THEN Empty
  ELSE IF Len(pairs) = 1 THEN JsonMember(pairs[1])
  ELSE JsonMember(pairs[1]) \o Comma \o <<32>> \o JsonMembers(Tail(pairs))

\* the text of the JSON object with the given members, written as the
\* setup page documents it: {"ssid": "yourSSID", "password": "yourPassword"}
JsonBody(pairs) == <<123>> \o JsonMembers(pairs) \o RBrace

\* the value a JSON object gives a field: <<v>>, or << >> when absent
JsonField(pairs, name) ==
  LET idx == {i \in 1..Len(pairs) : pairs[i][1] = name}
  IN  IF idx = {} THEN << >>
      ELSE <<pairs[CHOOSE i \in idx : \A j \in idx : i <= j][2]>>

\* the objects clients post
JsonInputs ==
  { << <<NameSsid, ValNet>>, <<NamePassword, ValPw>> >>,
    << <<NamePassword, ValPw>>, <<NameSsid, ValNet>> >>,
    << <<NameSsid, ValNet>> >>,
    << <<NamePassword, ValPw>> >>,
    << <<NameX, NameSsid>>, <<NamePassword, ValPw>> >>,
    << <<NameSsid, ValComma>>, <<NamePassword, ValPw>> >>,
    << <<NameSsid, ValNet>>, <<NamePassword, ValQuote>> >>,
    << <<NameSsid, ValNet>>, <<NamePassword, ValPw>>, <<NameX, NameX>> >>,
    << <<NameSsid, Empty>>, <<NamePassword, Empty>> >>,
    << >> }

(***************************************************************************)
(* handleConfigPost: the minimal JSON scan of the body                     *)
(***************************************************************************)
\* newSSID and newPassword as the else branch of handleConfigPost leaves them
scanBody(body) ==
  LET ssidIndex == indexOf(body, SsidKey, 0)
      passIndex == indexOf(body, PasswordKey, 0)
  IN  IF ssidIndex # -1 /\ passIndex # -1
      THEN LET colonIndex == indexOf(body, Colon, ssidIndex)
               commaIndex == indexOf(body, Comma, ssidIndex)
               colonIndex2 == indexOf(body, Colon, passIndex)
               endIndex == indexOf(body, RBrace, passIndex)
           IN  [ssid |->
                  IF colonIndex # -1
                  THEN removeQuotes(trim(substring(body, colonIndex + 1,
                         IF commaIndex = -1 THEN Len(body) ELSE commaIndex)))
                  ELSE Empty,
                password |->
                  IF colonIndex2 # -1 /\ endIndex # -1
                  THEN removeQuotes(trim(substring(body, colonIndex2 + 1, endIndex)))
                  ELSE Empty]
      ELSE [ssid |-> Empty, password |-> Empty]

(***************************************************************************)
(* State                                                                   *)
(***************************************************************************)
VARIABLES
  preferences,      \* the "config" namespace in flash: ssid, password, apikey
  savedSSID,        \* global String savedSSID
  savedPassword,    \* global String savedPassword
  savedAPIKey,      \* global String savedAPIKey
  pc,               \* where the single thread of execution is
  ret,              \* the caller openOrCloseGate returns to
  wifiMode,         \* WiFi.mode(): "OFF", "AP" or "STA"
  wifiJoin,         \* what WiFi.begin() was called with: << >> or <<ssid, password>>
  wifiStatus,       \* what WiFi.status() returns: "DISCONNECTED" or "CONNECTED"
  serverBegun,      \* server.begin() was called
  setupServerBegun, \* setupServer.begin() was called
  pinModes,         \* pinMode() of the two relay lines
  rng,              \* state of the pseudo-random generator
  req,              \* the request being handled, or the last one handled
  resp,             \* the last response sent
  log               \* effects of the current loop iteration, in order

vars == <<preferences, savedSSID, savedPassword, savedAPIKey, pc, ret, wifiMode,
          wifiJoin, wifiStatus, serverBegun, setupServerBegun, pinModes, rng, req, resp, log>>

Seeds == 1..NumSeeds

\* the empty flash namespace: getString(..., "") returns "" for every key
EmptyStore == [ssid |-> Empty, password |-> Empty, apikey |-> Empty]

NoRequest == [method |-> "", uri |-> "", auth |-> << >>, ssid |-> << >>,
              password |-> << >>, kind |-> "none", plain |-> Empty, json |-> << >>]

NoResponse == [status |-> 0, challenge |-> FALSE, key |-> Empty]

Response(status) == [status |-> status, challenge |-> FALSE, key |-> Empty]

\* both relay lines after reset
PinsAtReset == [pin \in {relayPin, relayPinMinus} |-> "INPUT"]

\* RAM, radio and pins after a reset; flash is whatever it was
AtReset ==
  /\ savedSSID = Empty
  /\ savedPassword = Empty
  /\ savedAPIKey = Empty
  /\ pc = "boot"
  /\ ret = "none"
  /\ wifiMode = "OFF"
  /\ wifiJoin = << >>
  /\ wifiStatus = "DISCONNECTED"
  /\ serverBegun = FALSE
  /\ setupServerBegun = FALSE
  /\ pinModes = PinsAtReset
  /\ rng = 0
  /\ req = NoRequest
  /\ resp = NoResponse
  /\ log = << >>

\* a factory-fresh device: nothing in flash
Init == preferences = EmptyStore /\ AtReset

\* a device whose flash holds any triple, complete or not
StoredTriples ==
  [ssid : {Empty, ValNet}, password : {Empty, ValPw},
   apikey : {Empty, generateAPIKey(1).key}]

InitAnyStore == preferences \in StoredTriples /\ AtReset

(***************************************************************************)
(* setup()                                                                 *)
(***************************************************************************)
\* the condition with "and" in place of "or"
unprovisioned_and(ssid, apikey) == ssid = Empty /\ apikey = Empty

\* the condition with the second comparison inverted
unprovisioned_inverted(ssid, apikey) == ssid = Empty \/ apikey # Empty

\* the condition of line 369 under which the setup portal is launched
unprovisioned(ssid, apikey) == ssid = Empty \/ apikey = Empty

\* setup() in which runSetupPortal() returns and setup() goes on to join
setup_fallthrough ==
  /\ pc = "boot"
  /\ savedSSID' = preferences.ssid
  /\ savedPassword' = preferences.password
  /\ savedAPIKey' = preferences.apikey
  /\ IF preferences.ssid = Empty \/ preferences.apikey = Empty
     THEN /\ \E seed \in Seeds : rng' = seed
          /\ setupServerBegun' = TRUE
     ELSE UNCHANGED <<rng, setupServerBegun>>
  /\ wifiMode' = "STA"
  /\ wifiJoin' = <<preferences.ssid, preferences.password>>
  /\ pc' = "connecting"
  /\ UNCHANGED <<preferences, ret, wifiStatus, serverBegun, pinModes, req, resp, log>>

\* setup() up to the WiFi wait loop, or through runSetupPortal() up to its
\* client loop when no configuration is stored
setup ==
  /\ pc = "boot"
  /\ savedSSID' = preferences.ssid
  /\ savedPassword' = preferences.password
  /\ savedAPIKey' = preferences.apikey
  /\ IF unprovisioned(preferences.ssid, preferences.apikey)
     THEN /\ wifiMode' = "AP"
          /\ \E seed \in Seeds : rng' = seed
          /\ setupServerBegun' = TRUE
          /\ pc' = "portal"
          /\ UNCHANGED wifiJoin
     ELSE /\ wifiMode' = "STA"
          /\ wifiJoin' = <<preferences.ssid, preferences.password>>
          /\ pc' = "connecting"
          /\ UNCHANGED <<rng, setupServerBegun>>
  /\ UNCHANGED <<preferences, ret, wifiStatus, serverBegun, pinModes, req, resp, log>>

\* the network comes or goes while setup() waits for it; the program
\* reads WiFi.status() nowhere else
WiFi_status ==
  /\ pc = "connecting"
  /\ wifiStatus' = IF wifiStatus = "CONNECTED" THEN "DISCONNECTED" ELSE "CONNECTED"
  /\ UNCHANGED <<preferences, savedSSID, savedPassword, savedAPIKey, pc, ret, wifiMode,
                 wifiJoin, serverBegun, setupServerBegun, pinModes, rng, req, resp, log>>

\* one turn of the wait loop: WiFi.status() is not WL_CONNECTED
setup_wait ==
  /\ pc = "connecting"
  /\ wifiStatus # "CONNECTED"
  /\ log' = <<"delay(500)">>
  /\ UNCHANGED <<preferences, savedSSID, savedPassword, savedAPIKey, pc, ret, wifiMode,
                 wifiJoin, wifiStatus, serverBegun, setupServerBegun, pinModes, rng, req, resp>>

\* the rest of setup() entered without looking at WiFi.status()
setup_connected_nowait ==
  /\ pc = "connecting"
  /\ pinModes' = [pinModes EXCEPT ![relayPin] = "OUTPUT"]
  /\ serverBegun' = TRUE
  /\ pc' = "loop"
  /\ log' = << >>
  /\ UNCHANGED <<preferences, savedSSID, savedPassword, savedAPIKey, ret, wifiMode,
                 wifiJoin, wifiStatus, setupServerBegun, rng, req, resp>>

\* WiFi.status() is WL_CONNECTED: the rest of setup()
setup_connected ==
  /\ pc = "connecting"
  /\ wifiStatus = "CONNECTED"
  /\ pinModes' = [pinModes EXCEPT ![relayPin] = "OUTPUT"]
  /\ serverBegun' = TRUE
  /\ pc' = "loop"
  /\ log' = << >>
  /\ UNCHANGED <<preferences, savedSSID, savedPassword, savedAPIKey, ret, wifiMode,
                 wifiJoin, wifiStatus, setupServerBegun, rng, req, resp>>

(***************************************************************************)
(* Normal mode: requests, authentication, handlers                         *)
(***************************************************************************)
\* "Basic " and "bearer "
BasicPrefix == <<66, 97, 115, 105, 99, 32>>
LowerPrefix == <<98, 101, 97, 114, 101, 114, 32>>

\* the Authorization headers clients send to a device whose key is key:
\* none, the right one, other keys, a prefix of the key, extra characters,
\* other schemes, the bare key, the bare scheme, the empty string
AuthHeaders(key) ==
  { << >>, <<Empty>>, <<BearerPrefix>>, <<key>>,
    <<BearerPrefix \o SubSeq(key, 1, Len(key) - 1)>>,
    <<BearerPrefix \o key \o <<48>> >>,
    <<BasicPrefix \o key>>, <<LowerPrefix \o key>> }
  \cup { <<BearerPrefix \o generateAPIKey(s).key>> : s \in 1..(NumSeeds + 1) }

Methods == {"GET", "POST"}

ServerUris == {"/open", "/close", "/docs", "/swagger.json", "/other"}

ServerRequests(key) ==
  { [NoRequest EXCEPT !.method = m, !.uri = u, !.auth = a] :
      m \in Methods, u \in ServerUris, a \in AuthHeaders(key) }

\* the handler WebServer dispatches a request to: the one registered with
\* server.on() for this uri and method, else the onNotFound handler
serverRoute(r) ==
  IF r.method = "GET" /\ r.uri \in {"/open", "/close", "/docs", "/swagger.json"}
  THEN r.uri
  ELSE "notFound"

\* checkAuth() with a prefix test in place of the full comparison
checkAuth_startsWith(auth, apikey) ==
  IF auth = << >> THEN FALSE
  ELSE LET expected == BearerPrefix \o apikey
       IN  MatchAt(auth[1], expected, 0)

\* bool checkAuth(): auth is << >> without the header, else <<its value>>
checkAuth(auth, apikey) ==
  IF auth = << >> THEN FALSE
  ELSE LET expected == BearerPrefix \o apikey
       IN  auth[1] = expected

\* the response of handleUnauthorized()
Unauthorized == [status |-> 401, challenge |-> TRUE, key |-> Empty]

\* what handleUnauthorized() does, in order
UnauthorizedLog == <<"sendHeader(WWW-Authenticate)", "send(401)">>

\* openOrCloseGate() up to its delay(3000): both lines become outputs
DriveLog == <<"pinMode(relayPin,OUTPUT)", "pinMode(relayPinMinus,OUTPUT)", "delay(3000)">>

\* openOrCloseGate() after the delay: both lines become inputs
ReleaseLog == <<"pinMode(relayPin,INPUT)", "pinMode(relayPinMinus,INPUT)">>

\* loop() that returns early when no client is waiting
handleClient_idle_noPoll ==
  /\ pc = "loop"
  /\ req' = NoRequest
  /\ resp' = NoResponse
  /\ log' = << >>
  /\ pc' = "loop"
  /\ UNCHANGED <<preferences, savedSSID, savedPassword, savedAPIKey, ret, wifiMode,
                 wifiJoin, wifiStatus, serverBegun, setupServerBegun, pinModes, rng>>

\* server.handleClient() finds no client waiting
handleClient_idle ==
  /\ pc = "loop"
  /\ req' = NoRequest
  /\ resp' = NoResponse
  /\ log' = << >>
  /\ pc' = "poll"
  /\ UNCHANGED <<preferences, savedSSID, savedPassword, savedAPIKey, ret, wifiMode,
                 wifiJoin, wifiStatus, serverBegun, setupServerBegun, pinModes, rng>>

\* void handleOpen(), up to the delay inside openOrCloseGate(), where
\* it stops when the token is right
handleOpen ==
  /\ pc = "loop"
  /\ serverBegun
  /\ \E r \in ServerRequests(savedAPIKey) :
       /\ serverRoute(r) = "/open"
       /\ req' = r
       /\ IF ~checkAuth(r.auth, savedAPIKey)
          THEN /\ resp' = Unauthorized
               /\ log' = UnauthorizedLog
               /\ pc' = "poll"
               /\ UNCHANGED <<ret, pinModes>>
          ELSE /\ resp' = NoResponse
               /\ log' = DriveLog
               /\ pinModes' = [pin \in {relayPin, relayPinMinus} |-> "OUTPUT"]
               /\ ret' = "handleOpen"
               /\ pc' = "hold"
  /\ UNCHANGED <<preferences, savedSSID, savedPassword, savedAPIKey, wifiMode,
                 wifiJoin, wifiStatus, serverBegun, setupServerBegun, rng>>

\* void handleClose(), up to the delay inside openOrCloseGate(), where
\* it stops when the token is right
handleClose ==
  /\ pc = "loop"
  /\ serverBegun
  /\ \E r \in ServerRequests(savedAPIKey) :
       /\ serverRoute(r) = "/close"
       /\ req' = r
       /\ IF ~checkAuth(r.auth, savedAPIKey)
          THEN /\ resp' = Unauthorized
               /\ log' = UnauthorizedLog
               /\ pc' = "poll"
               /\ UNCHANGED <<ret, pinModes>>
          ELSE /\ resp' = NoResponse
               /\ log' = DriveLog
               /\ pinModes' = [pin \in {relayPin, relayPinMinus} |-> "OUTPUT"]
               /\ ret' = "handleClose"
               /\ pc' = "hold"
  /\ UNCHANGED <<preferences, savedSSID, savedPassword, savedAPIKey, wifiMode,
                 wifiJoin, wifiStatus, serverBegun, setupServerBegun, rng>>

\* void handleDocs(): sends its page without looking at the request
handleDocs ==
  /\ pc = "loop"
  /\ serverBegun
  /\ \E r \in ServerRequests(savedAPIKey) :
       /\ serverRoute(r) = "/docs"
       /\ req' = r
  /\ resp' = Response(200)
  /\ log' = <<"send(200)">>
  /\ pc' = "poll"
  /\ UNCHANGED <<preferences, savedSSID, savedPassword, savedAPIKey, ret, wifiMode,
                 wifiJoin, wifiStatus, serverBegun, setupServerBegun, pinModes, rng>>

\* void handleSwaggerJSON(): sends its page without looking at the request
handleSwaggerJSON ==
  /\ pc = "loop"
  /\ serverBegun
  /\ \E r \in ServerRequests(savedAPIKey) :
       /\ serverRoute(r) = "/swagger.json"
       /\ req' = r
  /\ resp' = Response(200)
  /\ log' = <<"send(200)">>
  /\ pc' = "poll"
  /\ UNCHANGED <<preferences, savedSSID, savedPassword, savedAPIKey, ret, wifiMode,
                 wifiJoin, wifiStatus, serverBegun, setupServerBegun, pinModes, rng>>

\* handleNotFound() that pulses the gate for an authenticated caller
handleNotFound_actuates ==
  /\ pc = "loop"
  /\ serverBegun
  /\ \E r \in ServerRequests(savedAPIKey) :
       /\ serverRoute(r) = "notFound"
       /\ req' = r
       /\ IF ~checkAuth(r.auth, savedAPIKey)
          THEN /\ resp' = Unauthorized
               /\ log' = UnauthorizedLog
               /\ pc' = "poll"
               /\ UNCHANGED <<ret, pinModes>>
          ELSE /\ resp' = NoResponse
               /\ log' = DriveLog
               /\ pinModes' = [pin \in {relayPin, relayPinMinus} |-> "OUTPUT"]
               /\ ret' = "handleNotFound"
               /\ pc' = "hold"
  /\ UNCHANGED <<preferences, savedSSID, savedPassword, savedAPIKey, wifiMode,
                 wifiJoin, wifiStatus, serverBegun, setupServerBegun, rng>>

\* void handleNotFound()
handleNotFound ==
  /\ pc = "loop"
  /\ serverBegun
  /\ \E r \in ServerRequests(savedAPIKey) :
       /\ serverRoute(r) = "notFound"
       /\ req' = r
       /\ IF ~checkAuth(r.auth, savedAPIKey)
          THEN /\ resp' = Unauthorized
               /\ log' = UnauthorizedLog
          ELSE /\ resp' = Response(404)
               /\ log' = <<"send(404)">>
  /\ pc' = "poll"
  /\ UNCHANGED <<preferences, savedSSID, savedPassword, savedAPIKey, ret, wifiMode,
                 wifiJoin, wifiStatus, serverBegun, setupServerBegun, pinModes, rng>>

\* the status codes http.POST() returns to a poll
PollCodes == {200, 201, 404, 500, -1}

\* the log entry of http.POST() returning a status code
PostLog(code) ==
  CASE code = 200 -> "POST(200)"
    [] code = 201 -> "POST(201)"
    [] code = 404 -> "POST(404)"
    [] code = 500 -> "POST(500)"
    [] OTHER -> "POST(-1)"

\* the test with every 2xx status taken for success
pollActuates_anySuccess(httpResponseCode) ==
  httpResponseCode >= 200 /\ httpResponseCode < 300

\* the test of line 297
pollActuates(httpResponseCode) == httpResponseCode = HTTP_OK

\* void sendPostMessage(), up to the delay inside openOrCloseGate() when
\* the endpoint answers 200
sendPostMessage ==
  /\ pc = "poll"
  /\ \E httpResponseCode \in PollCodes :
       IF pollActuates(httpResponseCode)
       THEN /\ log' = log \o <<PostLog(httpResponseCode)>> \o DriveLog
            /\ pinModes' = [pin \in {relayPin, relayPinMinus} |-> "OUTPUT"]
            /\ ret' = "sendPostMessage"
            /\ pc' = "hold"
       ELSE /\ log' = log \o <<PostLog(httpResponseCode)>>
            /\ pc' = "loop"
            /\ UNCHANGED <<ret, pinModes>>
  /\ UNCHANGED <<preferences, savedSSID, savedPassword, savedAPIKey, wifiMode,
                 wifiJoin, wifiStatus, serverBegun, setupServerBegun, rng, req, resp>>

\* openOrCloseGate() that releases relayPin only
openOrCloseGate_oneLine ==
  /\ pc = "hold"
  /\ pinModes' = [pinModes EXCEPT ![relayPin] = "INPUT"]
  /\ IF ret = "sendPostMessage"
     THEN /\ log' = log \o <<"pinMode(relayPin,INPUT)">>
          /\ pc' = "loop"
          /\ UNCHANGED resp
     ELSE /\ log' = log \o <<"pinMode(relayPin,INPUT)", "send(200)">>
          /\ resp' = Response(200)
          /\ pc' = "poll"
  /\ ret' = "none"
  /\ UNCHANGED <<preferences, savedSSID, savedPassword, savedAPIKey, wifiMode,
                 wifiJoin, wifiStatus, serverBegun, setupServerBegun, rng, req>>

\* void openOrCloseGate(), from the end of its delay, and the return into
\* the caller: handleOpen and handleClose send their 200, loop() goes on
openOrCloseGate ==
  /\ pc = "hold"
  /\ pinModes' = [pin \in {relayPin, relayPinMinus} |-> "INPUT"]
  /\ IF ret = "sendPostMessage"
     THEN /\ log' = log \o ReleaseLog
          /\ pc' = "loop"
          /\ UNCHANGED resp
     ELSE /\ log' = log \o ReleaseLog \o <<"send(200)">>
          /\ resp' = Response(200)
          /\ pc' = "poll"
  /\ ret' = "none"
  /\ UNCHANGED <<preferences, savedSSID, savedPassword, savedAPIKey, wifiMode,
                 wifiJoin, wifiStatus, serverBegun, setupServerBegun, rng, req>>

(***************************************************************************)
(* Setup portal: requests and handlers                                     *)
(***************************************************************************)
SetupUris == {"/", "/save", "/config", "/other"}

\* an argument of a form: absent, present but empty, present with a value
FormArgs(value) == { << >>, <<Empty>>, <<value>> }

\* form posts (arguments parsed by WebServer, no "plain" body) and JSON
\* posts (no arguments, the body in the "plain" argument)
SetupRequests ==
  { [NoRequest EXCEPT !.method = m, !.uri = u, !.kind = "form",
                      !.ssid = s, !.password = p] :
      m \in Methods, u \in SetupUris, s \in FormArgs(ValNet), p \in FormArgs(ValPw) }
  \cup
  { [NoRequest EXCEPT !.method = m, !.uri = u, !.kind = "json",
                      !.plain = JsonBody(j), !.json = j] :
      m \in Methods, u \in SetupUris, j \in JsonInputs }

\* the handler setupServer dispatches a request to; no onNotFound handler
\* is registered, so WebServer answers the rest itself
setupRoute(r) ==
  IF r.method = "GET" /\ r.uri = "/" THEN "/"
  ELSE IF r.method = "POST" /\ r.uri \in {"/save", "/config"} THEN r.uri
  ELSE "notFound"

\* setupServer.hasArg("ssid") && setupServer.hasArg("password")
hasBothArgs(r) == r.ssid # << >> /\ r.password # << >>

\* the three putString() calls
putTriple(newSSID, newPassword, newAPIKey) ==
  [ssid |-> newSSID, password |-> newPassword, apikey |-> newAPIKey]

PutLog == <<"putString(ssid)", "putString(password)", "putString(apikey)">>

\* void handleSetupRoot()
handleSetupRoot ==
  /\ pc = "portal"
  /\ \E r \in SetupRequests :
       /\ setupRoute(r) = "/"
       /\ req' = r
  /\ resp' = Response(200)
  /\ log' = <<"send(200)">>
  /\ UNCHANGED <<preferences, savedSSID, savedPassword, savedAPIKey, pc, ret, wifiMode,
                 wifiJoin, wifiStatus, serverBegun, setupServerBegun, pinModes, rng>>

\* WebServer's own answer to a request no handler is registered for
setupServer_notFound ==
  /\ pc = "portal"
  /\ \E r \in SetupRequests :
       /\ setupRoute(r) = "notFound"
       /\ req' = r
  /\ resp' = Response(404)
  /\ log' = <<"send(404)">>
  /\ UNCHANGED <<preferences, savedSSID, savedPassword, savedAPIKey, pc, ret, wifiMode,
                 wifiJoin, wifiStatus, serverBegun, setupServerBegun, pinModes, rng>>

\* handleSetupSave() that restarts after the 400 answer as well
handleSetupSave_restartOn400 ==
  /\ pc = "portal"
  /\ \E r \in SetupRequests :
       /\ setupRoute(r) = "/save"
       /\ req' = r
       /\ IF hasBothArgs(r)
          THEN LET gen == generateAPIKey(rng)
               IN  /\ preferences' = putTriple(r.ssid[1], r.password[1], gen.key)
                   /\ rng' = gen.rng
                   /\ resp' = [status |-> 200, challenge |-> FALSE, key |-> gen.key]
                   /\ log' = PutLog \o <<"send(200)">>
          ELSE /\ resp' = Response(400)
               /\ log' = <<"send(400)">>
               /\ UNCHANGED <<preferences, rng>>
  /\ pc' = "restart"
  /\ UNCHANGED <<savedSSID, savedPassword, savedAPIKey, ret, wifiMode,
                 wifiJoin, wifiStatus, serverBegun, setupServerBegun, pinModes>>

\* void handleSetupSave(), up to its delay(2000)
handleSetupSave ==
  /\ pc = "portal"
  /\ \E r \in SetupRequests :
       /\ setupRoute(r) = "/save"
       /\ req' = r
       /\ IF hasBothArgs(r)
          THEN LET newSSID == r.ssid[1]
                   newPassword == r.password[1]
                   gen == generateAPIKey(rng)
               IN  /\ preferences' = putTriple(newSSID, newPassword, gen.key)
                   /\ rng' = gen.rng
                   /\ resp' = [status |-> 200, challenge |-> FALSE, key |-> gen.key]
                   /\ log' = PutLog \o <<"send(200)">>
                   /\ pc' = "restart"
          ELSE /\ resp' = Response(400)
               /\ log' = <<"send(400)">>
               /\ UNCHANGED <<preferences, rng, pc>>
  /\ UNCHANGED <<savedSSID, savedPassword, savedAPIKey, ret, wifiMode,
                 wifiJoin, wifiStatus, serverBegun, setupServerBegun, pinModes>>

\* the guard testing the stored key in place of the stored network name
alreadySet_apikey(store) == store.apikey # Empty

\* the guard of handleConfigPost: preferences.getString("ssid", "") != ""
alreadySet(store) == store.ssid # Empty

\* newSSID and newPassword of handleConfigPost: the form arguments when
\* both are present, else what the scan of the "plain" argument yields
configFields(r) ==
  IF hasBothArgs(r)
  THEN [ssid |-> r.ssid[1], password |-> r.password[1]]
  ELSE scanBody(r.plain)

\* void handleConfigPost(), up to its delay(2000)
handleConfigPost ==
  /\ pc = "portal"
  /\ \E r \in SetupRequests :
       /\ setupRoute(r) = "/config"
       /\ req' = r
       /\ IF alreadySet(preferences)
          THEN /\ resp' = Response(403)
               /\ log' = <<"send(403)">>
               /\ UNCHANGED <<preferences, rng, pc>>
          ELSE LET new == configFields(r)
                   gen == generateAPIKey(rng)
               IN  IF new.ssid = Empty \/ new.password = Empty
                   THEN /\ resp' = Response(400)
                        /\ log' = <<"send(400)">>
                        /\ UNCHANGED <<preferences, rng, pc>>
                   ELSE /\ preferences' = putTriple(new.ssid, new.password, gen.key)
                        /\ rng' = gen.rng
                        /\ resp' = [status |-> 200, challenge |-> FALSE, key |-> gen.key]
                        /\ log' = PutLog \o <<"send(200)">>
                        /\ pc' = "restart"
  /\ UNCHANGED <<savedSSID, savedPassword, savedAPIKey, ret, wifiMode,
                 wifiJoin, wifiStatus, serverBegun, setupServerBegun, pinModes>>

\* ESP.restart() after the delay(2000): RAM, radio and pins are reset,
\* flash is kept
ESP_restart ==
  /\ pc = "restart"
  /\ savedSSID' = Empty
  /\ savedPassword' = Empty
  /\ savedAPIKey' = Empty
  /\ pc' = "boot"
  /\ ret' = "none"
  /\ wifiMode' = "OFF"
  /\ wifiJoin' = << >>
  /\ wifiStatus' = "DISCONNECTED"
  /\ serverBegun' = FALSE
  /\ setupServerBegun' = FALSE
  /\ pinModes' = PinsAtReset
  /\ rng' = 0
  /\ req' = NoRequest
  /\ resp' = NoResponse
  /\ log' = << >>
  /\ UNCHANGED preferences

(***************************************************************************)
(* Specifications                                                          *)
(***************************************************************************)
Next ==
  \/ setup
  \/ WiFi_status
  \/ setup_wait
  \/ setup_connected
  \/ handleClient_idle
  \/ handleOpen
  \/ handleClose
  \/ handleDocs
  \/ handleSwaggerJSON
  \/ handleNotFound
  \/ sendPostMessage
  \/ openOrCloseGate
  \/ handleSetupRoot
  \/ setupServer_notFound
  \/ handleSetupSave
  \/ handleConfigPost
  \/ ESP_restart

\* a factory-fresh device
Spec == Init /\ [][Next]_vars

\* a device booting with any triple in flash
SpecAnyStore == InitAnyStore /\ [][Next]_vars

\* a factory-fresh device on which delay() returns and the wait loop of
\* setup() keeps turning: the pulse ends, and a connected network is seen
LiveSpec ==
  /\ Init
  /\ [][Next]_vars
  /\ WF_vars(openOrCloseGate)
  /\ WF_vars(setup_connected)

(***************************************************************************)
(* Properties                                                              *)
(***************************************************************************)
GateUris == {"/open", "/close"}

OperationalPcs == {"connecting", "loop", "poll", "hold"}

PortalPcs == {"portal", "restart"}

\* one complete pulse followed by the 200
PulseThenReply == DriveLog \o ReleaseLog \o <<"send(200)">>

\* C1: in normal mode a GET /open or GET /close whose Authorization header
\* is exactly "Bearer " followed by the stored key is answered 200 after
\* one complete pulse (both lines outputs, the delay, both lines inputs);
\* with any other header, or none, it is answered 401 with the
\* WWW-Authenticate header and the relay lines are not touched.
C1_BearerGate ==
  /\ (pc = "poll" /\ req.method = "GET" /\ req.uri \in GateUris) =>
       IF req.auth = <<BearerPrefix \o savedAPIKey>>
       THEN /\ resp = Response(200)
            /\ log = PulseThenReply
            /\ \A pin \in {relayPin, relayPinMinus} : pinModes[pin] = "INPUT"
       ELSE /\ resp = Unauthorized
            /\ log = UnauthorizedLog
  /\ (pc = "hold" /\ ret \in {"handleOpen", "handleClose"}) =>
       /\ req.auth = <<BearerPrefix \o savedAPIKey>>
       /\ req.method = "GET" /\ req.uri \in GateUris
       /\ resp = NoResponse
       /\ log = DriveLog

C1_Witness ==
  /\ pc = "poll"
  /\ req.method = "GET" /\ req.uri = "/open"
  /\ req.auth = <<BearerPrefix \o savedAPIKey>>
  /\ resp.status = 200
  /\ log = PulseThenReply

\* C2: the stored API key is non-empty exactly when the stored network
\* name is non-empty.
C2_EmptyOrFullyConfigured ==
  (preferences.apikey # Empty) <=> (preferences.ssid # Empty)

\* C3: booting with a stored triple whose network name or API key is empty
\* enters the setup portal (access point, setup server), and a boot cycle
\* in the portal never starts the normal server, never joins a network and
\* never reaches the main loop.
C3_IncompleteBootsPortal ==
  /\ [][(pc = "boot" /\ pc' # "boot"
          /\ (preferences.ssid = Empty \/ preferences.apikey = Empty))
        => (pc' = "portal" /\ wifiMode' = "AP" /\ setupServerBegun')]_vars
  /\ [](pc \in PortalPcs =>
          /\ wifiMode = "AP"
          /\ setupServerBegun
          /\ ~serverBegun
          /\ wifiJoin = << >>)
  /\ [][(pc \in PortalPcs) => (pc' \in PortalPcs \/ pc' = "boot")]_vars

C3_Witness ==
  /\ pc = "portal"
  /\ preferences.ssid # Empty
  /\ preferences.apikey = Empty
  /\ wifiMode = "AP"
  /\ setupServerBegun

\* C4: booting with a stored triple whose network name and API key are both
\* non-empty calls WiFi.begin() with the stored name and password in
\* station mode, and that boot cycle never starts the access point or the
\* setup server.
C4_CompleteBootsStation ==
  /\ [][(pc = "boot" /\ pc' # "boot"
          /\ preferences.ssid # Empty /\ preferences.apikey # Empty)
        => (/\ pc' = "connecting"
            /\ wifiMode' = "STA"
            /\ wifiJoin' = <<preferences.ssid, preferences.password>>)]_vars
  /\ [](pc \in OperationalPcs =>
          /\ wifiMode = "STA"
          /\ ~setupServerBegun
          /\ wifiJoin = <<preferences.ssid, preferences.password>>)
  /\ [][(pc \in OperationalPcs) => (pc' \in OperationalPcs)]_vars

C4_Witness ==
  /\ pc = "connecting"
  /\ wifiMode = "STA"
  /\ preferences.ssid # Empty
  /\ preferences.apikey # Empty
  /\ wifiJoin = <<preferences.ssid, preferences.password>>

\* C5: the portal's services (access point, setup server) and the normal
\* services (station, normal server, main loop) are never active together,
\* and the mode chosen at boot changes only by a restart.
C5_ModesExclusive ==
  /\ [](/\ ~(setupServerBegun /\ serverBegun)
        /\ (wifiMode = "AP" => ~serverBegun /\ wifiJoin = << >> /\ pc \in PortalPcs)
        /\ (wifiMode = "STA" => ~setupServerBegun /\ pc \in OperationalPcs)
        /\ (setupServerBegun => wifiMode = "AP")
        /\ (serverBegun => wifiMode = "STA"))
  /\ [][wifiMode # "OFF" => (wifiMode' = wifiMode \/ pc' = "boot")]_vars

C5_Witness ==
  /\ pc = "poll"
  /\ wifiMode = "STA"
  /\ serverBegun
  /\ ~setupServerBegun
  /\ preferences.apikey # Empty

\* a step in which the portal handles a POST to uri
PortalPost(uri) ==
  /\ pc = "portal"
  /\ req'.method = "POST"
  /\ req'.uri = uri
  /\ log' # << >>

suppliedSsid(r) == IF r.kind = "json" THEN JsonField(r.json, NameSsid) ELSE r.ssid

suppliedPassword(r) == IF r.kind = "json" THEN JsonField(r.json, NamePassword) ELSE r.password

\* 16 characters from 0-9 and A-F
IsHexKey(key) ==
  /\ Len(key) = 16
  /\ \A i \in 1..Len(key) : key[i] \in (48..57) \cup (65..70)

\* C7: after a provisioning POST that supplies a network name and a secret
\* and is answered 200, flash holds exactly that name and that secret and
\* a key of 16 characters from 0-9 and A-F, and the next boot reads that
\* same triple.
C7_PersistsSupplied ==
  /\ (pc = "restart" /\ suppliedSsid(req) # << >> /\ suppliedPassword(req) # << >>) =>
       /\ <<preferences.ssid>> = suppliedSsid(req)
       /\ <<preferences.password>> = suppliedPassword(req)
       /\ IsHexKey(preferences.apikey)
       /\ resp.status = 200
  /\ pc \in {"portal", "connecting"} =>
       /\ savedSSID = preferences.ssid
       /\ savedPassword = preferences.password
       /\ savedAPIKey = preferences.apikey

\* C8: a provisioning POST in which exactly one of the fields ssid and
\* password is present is answered 400 and writes nothing, generates no
\* key and does not lead to a restart.
C8_OneFieldRejected ==
  [][((PortalPost("/save") \/ PortalPost("/config"))
       /\ ((suppliedSsid(req') = << >>) # (suppliedPassword(req') = << >>)))
     => (/\ resp'.status = 400
         /\ preferences' = preferences
         /\ rng' = rng
         /\ pc' = "portal")]_vars

\* a value free of the characters the scan of handleConfigPost trips over
PlainValue(v) == \A i \in 1..Len(v) : v[i] \notin {58, 44, 125, 34, 92}

\* the object has exactly the members ssid and password, in that order
ExactShape(j) ==
  /\ Len(j) = 2
  /\ j[1][1] = NameSsid /\ PlainValue(j[1][2])
  /\ j[2][1] = NamePassword /\ PlainValue(j[2][2])

\* C9: a POST /config with a JSON body that is not exactly
\* {"ssid": <string>, "password": <string>} is answered 400 and writes
\* nothing.
C9_MalformedJsonRejected ==
  [][(PortalPost("/config") /\ req'.kind = "json" /\ ~ExactShape(req'.json))
     => (resp'.status = 400 /\ preferences' = preferences)]_vars

\* C10: once any of the three stored values is written, none of them
\* changes again.
C10_WrittenOnce ==
  [][preferences # EmptyStore => preferences' = preferences]_vars

\* the log entries of polls
PostEntries == {PostLog(code) : code \in PollCodes}

\* where the polls of the current loop iteration are in the log
PostIndexes == {i \in 1..Len(log) : log[i] \in PostEntries}

BothPins(mode) == \A pin \in {relayPin, relayPinMinus} : pinModes[pin] = mode

\* C11: a poll answered 200 is followed by exactly one complete pulse, a
\* poll answered anything else (negative client errors included) by no
\* pinMode call at all, and a loop iteration polls at most once.
C11_PollActuation ==
  /\ Cardinality(PostIndexes) <= 1
  /\ \A i \in PostIndexes :
       LET after == SubSeq(log, i + 1, Len(log))
       IN  IF log[i] = "POST(200)"
           THEN \/ /\ pc = "hold"
                   /\ ret = "sendPostMessage"
                   /\ after = DriveLog
                   /\ BothPins("OUTPUT")
                \/ /\ pc = "loop"
                   /\ after = DriveLog \o ReleaseLog
                   /\ BothPins("INPUT")
           ELSE /\ pc = "loop"
                /\ ret = "none"
                /\ after = << >>

C11_Witness ==
  /\ pc = "loop"
  /\ log = <<"POST(200)">> \o DriveLog \o ReleaseLog
  /\ BothPins("INPUT")

DocUris == {"/docs", "/swagger.json"}

\* C12: GET /docs and GET /swagger.json are answered 200 only with the
\* Authorization header "Bearer " followed by the stored key, and 401
\* otherwise.
C12_DocsNeedBearer ==
  (pc = "poll" /\ req.method = "GET" /\ req.uri \in DocUris) =>
    IF req.auth = <<BearerPrefix \o savedAPIKey>>
    THEN resp.status = 200
    ELSE resp = Unauthorized

EndsWith(s, suffix) ==
  /\ Len(s) >= Len(suffix)
  /\ SubSeq(s, Len(s) - Len(suffix) + 1, Len(s)) = suffix

GateCallers == {"handleOpen", "handleClose", "sendPostMessage"}

\* C13: every pulse, whoever starts it, makes both lines outputs, waits,
\* then makes both lines inputs; the only step out of the wait is that
\* release, and the wait always ends.
C13_PulseSequence ==
  /\ [](pc = "hold" =>
          /\ BothPins("OUTPUT")
          /\ EndsWith(log, DriveLog)
          /\ ret \in GateCallers)
  /\ [][(pc = "hold") =>
          (/\ \A pin \in {relayPin, relayPinMinus} : pinModes'[pin] = "INPUT"
           /\ pc' \in {"poll", "loop"}
           /\ Len(log') >= Len(log) + 2
           /\ SubSeq(log', 1, Len(log) + 2) = log \o ReleaseLog)]_vars
  /\ ((pc = "hold") ~> (pc # "hold"))

C13_Witness ==
  /\ pc = "poll"
  /\ req.uri = "/close"
  /\ log = PulseThenReply
  /\ BothPins("INPUT")

\* where the responses, the starts and the ends of pulses are in the log
SendIndexes == {i \in 1..Len(log) : log[i] \in {"send(200)", "send(401)", "send(404)"}}

DriveIndexes == {i \in 1..Len(log) : log[i] = "pinMode(relayPin,OUTPUT)"}

ReleaseIndexes == {i \in 1..Len(log) : log[i] = "pinMode(relayPin,INPUT)"}

\* C14: a loop iteration handles at most one request and then polls exactly
\* once; during a pulse no request is dispatched, no poll is issued and no
\* second pulse starts, so pulses never overlap.
C14_Alternation ==
  /\ [][(pc = "loop") =>
          (/\ pc' \in {"poll", "hold"}
           /\ (pc' = "hold" => ret' \in {"handleOpen", "handleClose"})
           /\ PostIndexes' = {})]_vars
  /\ [][(pc = "poll") =>
          (/\ pc' \in {"loop", "hold"}
           /\ (pc' = "hold" => ret' = "sendPostMessage")
           /\ req' = req
           /\ resp' = resp
           /\ Cardinality(PostIndexes') = 1)]_vars
  /\ [][(pc = "hold") =>
          (/\ req' = req
           /\ PostIndexes' = PostIndexes
           /\ DriveIndexes' = DriveIndexes
           /\ pc' = IF ret = "sendPostMessage" THEN "loop" ELSE "poll")]_vars
  /\ [](/\ Cardinality(SendIndexes) <= 1
        /\ Cardinality(PostIndexes) <= 1
        /\ \A i \in SendIndexes : \A j \in PostIndexes : i < j
        /\ \A i \in DriveIndexes : \A j \in DriveIndexes :
             i < j => \E k \in ReleaseIndexes : i < k /\ k < j
        /\ (pc = "hold" <=> Cardinality(DriveIndexes) > Cardinality(ReleaseIndexes)))

C14_Witness ==
  /\ pc = "hold"
  /\ ret = "sendPostMessage"
  /\ log = PulseThenReply \o <<"POST(200)">> \o DriveLog

\* C15: a successful provisioning response is followed by a restart, and the
\* boot after it (the store holding what provisioning wrote) joins the
\* network as a station instead of opening the setup portal again.
C15_RestartEntersOperational ==
  /\ [][(pc = "restart") =>
          (resp.status = 200 /\ pc' = "boot" /\ preferences' = preferences)]_vars
  /\ [][(pc = "boot" /\ pc' # "boot" /\ preferences # EmptyStore) =>
          (pc' = "connecting" /\ wifiMode' = "STA")]_vars

\* C16: the portal is left only by a restart; the restart is entered only by
\* the handler step that wrote the triple and answered 200, and is the very
\* next step (no request in between); a step that answers 400, 403, 404 or
\* the form page stays in the portal with store and radio mode unchanged.
C16_RestartOnlyAfterWrite ==
  /\ [][(pc = "portal") => (pc' \in {"portal", "restart"})]_vars
  /\ [][(pc # "restart" /\ pc' = "restart") =>
          (/\ pc = "portal"
           /\ req'.method = "POST" /\ req'.uri \in {"/save", "/config"}
           /\ resp'.status = 200
           /\ log' = PutLog \o <<"send(200)">>
           /\ preferences'.apikey = resp'.key)]_vars
  /\ [][(pc = "portal" /\ (resp'.status # 200 \/ req'.method = "GET")) =>
          (/\ pc' = "portal"
           /\ preferences' = preferences
           /\ wifiMode' = wifiMode
           /\ setupServerBegun' = setupServerBegun)]_vars
  /\ [][(pc = "restart") =>
          (pc' = "boot" /\ req' = NoRequest /\ preferences' = preferences)]_vars
  /\ [][(pc # "boot" /\ pc' = "boot") => (pc = "restart")]_vars

C16_Witness ==
  /\ pc = "portal"
  /\ req.method = "POST" /\ req.uri = "/save"
  /\ resp.status = 400
  /\ preferences.ssid # Empty
  /\ preferences.apikey = Empty

C18_IdleLinesInput == pc # "hold" => BothPins("INPUT")

\* C19: the key in a successful provisioning response is the key in the
\* store; that key stays the store's key in every later boot cycle; and a
\* GET /open is let through exactly when it carries "Bearer " plus that key.
C19_ShownKeyIsTheKey ==
  /\ [](pc = "restart" =>
          /\ resp.status = 200
          /\ resp.key # Empty
          /\ resp.key = preferences.apikey)
  /\ [][(preferences.apikey # Empty) =>
          (preferences'.apikey = preferences.apikey)]_vars
  /\ [][(pc = "loop" /\ req'.method = "GET" /\ req'.uri = "/open") =>
          (pc' = "hold" <=> req'.auth = <<BearerPrefix \o preferences.apikey>>)]_vars

\* C20: a pulse is started only by the step that dispatched a GET /open or
\* GET /close carrying "Bearer " plus the stored key, or by the step whose
\* poll returned 200; outside the main loop (portal, restart, network wait)
\* no pulse is started and relayPinMinus is never driven; a request for any
\* other path, or one answered 401 or 404, starts none.
C20_PulseCauses ==
  /\ [][(pc # "hold" /\ pc' = "hold") =>
          \/ /\ pc = "loop"
             /\ req'.method = "GET" /\ req'.uri \in GateUris
             /\ req'.auth = <<BearerPrefix \o savedAPIKey>>
             /\ ret' \in {"handleOpen", "handleClose"}
             /\ log' = DriveLog
          \/ /\ pc = "poll"
             /\ ret' = "sendPostMessage"
             /\ req' = req
             /\ log' = log \o <<"POST(200)">> \o DriveLog]_vars
  /\ [][(pinModes[relayPinMinus] # "OUTPUT" /\ pinModes'[relayPinMinus] = "OUTPUT") =>
          (pc # "hold" /\ pc' = "hold")]_vars
  /\ [](pc \notin {"loop", "poll", "hold"} =>
          (DriveIndexes = {} /\ BothPins("INPUT")))
  /\ [](\A j \in DriveIndexes :
          \/ /\ j = 1
             /\ req.method = "GET" /\ req.uri \in GateUris
             /\ req.auth = <<BearerPrefix \o savedAPIKey>>
          \/ /\ j > 1
             /\ log[j - 1] = "POST(200)")
  /\ []((pc = "poll" /\ resp.status \in {401, 404}) => DriveIndexes = {})

C20_Witness ==
  /\ pc = "poll"
  /\ req.method = "GET" /\ req.uri = "/other"
  /\ req.auth = <<BearerPrefix \o savedAPIKey>>
  /\ resp.status = 404
  /\ log = <<"send(404)">>
  /\ pinModes[relayPinMinus] = "INPUT"

====
